---- MODULE Spec2Model ----
(***************************************************************************)
(* The waterfall and pass-through-wallet clients of splits-sdk:            *)
(*   src/packages/splits-sdk/src/client/waterfall.ts   (waterfall)         *)
(*   src/unnamed/part_000                              (pass-through)      *)
(*                                                                         *)
(* A client is built once from a configuration (Init).  Every builder call  *)
(* is an asynchronous invocation: the action that starts it runs the code   *)
(* up to its first await, and one action per awaited collaborator (owner    *)
(* read, metadata lookup, tranche-size resolution, executor, event lookup)  *)
(* takes the collaborator's answer and runs the code up to the next await.  *)
(* Invocations live in slots, so that several can be in flight at once.     *)
(***************************************************************************)
EXTENDS Integers, Sequences, FiniteSets, TLC

\* ------------------------------------------------------------------ bounds
MaxTranches == 2    \* longest tranche list (input and metadata)
MaxList == 1        \* longest tokens / calls list
MaxLogs == 2        \* most logs in a transaction receipt

\* --------------------------------------------------------------- addresses
\* An address string is its 20-byte value (id) and its letter case: all
\* lower case, or EIP-55 check-summed.  Strings are equal (===) iff both agree.
Addr(id, case) == [id |-> id, case |-> case]
zeroAddress == Addr("zero", "lower")
UndefinedAddr == Addr("undefined", "lower")
Malformed == Addr("bad", "lower")
NoAddr == Addr("none", "lower")

\* String.prototype.toLowerCase on an address string
toLowerCase(a) == [a EXCEPT !.case = "lower"]

\* viem getAddress: the check-summed form (the zero address has no letters)
getAddress(a) == IF a.id = "zero" THEN a ELSE [a EXCEPT !.case = "sum"]

\* utils/validation validateAddress: TRUE iff it does not throw
validateAddress(a) == a.id \notin {"bad", "undefined", "none"}

RECURSIVE StrictlyIncreasing(_)
StrictlyIncreasing(t) ==
    \/ Len(t) <= 1
    \/ /\ t[1].size < t[2].size
       /\ StrictlyIncreasing(Tail(t))

\* utils/validation validateWaterfallTranches: TRUE iff it does not throw
validateWaterfallTranches(tranches) ==
    /\ Len(tranches) > 0
    /\ StrictlyIncreasing(tranches)

\* ------------------------------------------------------------------ chains
DefaultChainId == "chain1"
SupportedChainIds == {"chain1", "chain5"}

\* BaseTransactions._getFunctionChainId: the argument, else the default
getFunctionChainId(chainId) ==
    IF chainId = "undefined" THEN DefaultChainId ELSE chainId

getWaterfallFactoryAddress(chainId) ==
    Addr(IF chainId = "chain1" THEN "WaterfallFactory1" ELSE "WaterfallFactoryN", "sum")

getPassThroughWalletFactoryAddress(chainId) ==
    Addr(IF chainId = "chain1" THEN "PassThroughFactory1" ELSE "PassThroughFactoryN", "sum")

\* ------------------------------------------------------------------ values
NoOut == [status |-> "none", error |-> "none", value |-> "none"]
NoRes == [kind |-> "none", value |-> "none"]
NoReq == [contractAddress |-> NoAddr, functionName |-> "none",
          functionArgs |-> <<>>, transactionOverrides |-> "none"]
NoMeta == [token |-> NoAddr, nonWaterfallRecipient |-> NoAddr, tranches |-> <<>>]
NoLookup == [txHash |-> "none", eventTopics |-> <<>>]
NoArgs == [none |-> "none"]

Idle == [pc |-> "idle", self |-> "none", op |-> "none", args |-> NoArgs,
         chain |-> "none", net |-> <<>>, owner |-> NoAddr, meta |-> NoMeta,
         decimals |-> 0, req |-> NoReq, res |-> NoRes, lookup |-> NoLookup,
         logs |-> <<>>, out |-> NoOut]

\* `transactionOverrides = {}`
Overrides(o) == IF o = "undefined" THEN "{}" ELSE o

\* ----------------------------------------------------------------- clients
\* encodeEventTopics({abi, eventName})[0]
encodeEventTopics(eventName) == "topic:" \o eventName

\* BaseTransactions constructor: the mode and the signer policy of one object
BaseTransactions(transactionType, clientArgs) ==
    [transactionType |-> transactionType,
     shouldRequireWalletClient |->
        CASE transactionType = "Transaction" -> TRUE
          [] transactionType = "GasEstimate" -> clientArgs.requireSignerForEstimates
          [] OTHER -> FALSE,
     walletClient |-> clientArgs.walletClient,
     dataClient |-> clientArgs.dataClient]

WaterfallEventTopics ==
    [createWaterfallModule |-> <<encodeEventTopics("CreateWaterfallModule")>>,
     waterfallFunds |-> <<encodeEventTopics("WaterfallFunds")>>,
     recoverNonWaterfallFunds |-> <<encodeEventTopics("RecoverNonWaterfallFunds")>>,
     withdrawPullFunds |-> <<encodeEventTopics("Withdrawal")>>]

PassThroughWalletEventTopics ==
    [createPassThroughWallet |-> <<encodeEventTopics("CreatePassThroughWallet")>>,
     passThroughTokens |-> <<encodeEventTopics("PassThrough")>>,
     setPassThrough |-> <<encodeEventTopics("SetPassThrough")>>,
     setPaused |-> <<encodeEventTopics("SetPaused")>>,
     execCalls |-> <<encodeEventTopics("ExecCalls")>>]

\* new WaterfallClient(clientArgs)
WaterfallClient(clientArgs) ==
    [base |-> BaseTransactions("Transaction", clientArgs),
     eventTopics |-> WaterfallEventTopics,
     callData |-> BaseTransactions("CallData", clientArgs),
     estimateGas |-> BaseTransactions("GasEstimate", clientArgs)]

\* new PassThroughWalletClient(clientArgs)
PassThroughWalletClient(clientArgs) ==
    [base |-> BaseTransactions("Transaction", clientArgs),
     eventTopics |-> PassThroughWalletEventTopics,
     callData |-> BaseTransactions("CallData", clientArgs),
     estimateGas |-> BaseTransactions("GasEstimate", clientArgs)]

VARIABLES
    waterfall,          \* the WaterfallClient instance
    passThroughWallet,  \* the PassThroughWalletClient instance
    inv,                \* inv[s]: the invocation in slot s
    callers             \* the slots whose callers use the clients

vars == <<waterfall, passThroughWallet, inv, callers>>

Slots == {1, 2}

WaterfallOps == {"createWaterfallModule", "waterfallFunds",
                 "recoverNonWaterfallFunds", "withdrawPullFunds"}
PassThroughWalletOps == {"createPassThroughWallet", "passThroughTokens",
                         "setPassThrough", "setPaused", "execCalls"}
OwnerGatedOps == {"setPassThrough", "setPaused", "execCalls"}

\* The object a facade method runs on: the client itself, client.callData or
\* client.estimateGas
This(self, op) ==
    LET c == IF op \in WaterfallOps THEN waterfall ELSE passThroughWallet
    IN  CASE self = "callData" -> c.callData
          [] self = "estimateGas" -> c.estimateGas
          [] OTHER -> c.base

EventTopicsOf(op) ==
    IF op \in WaterfallOps THEN waterfall.eventTopics[op]
    ELSE passThroughWallet.eventTopics[op]

\* ------------------------------------------------------- steps of the code
\* throw new <error>
Throw(i, error) ==
    [i EXCEPT !.pc = "done",
              !.out = [status |-> "error", error |-> error, value |-> "none"]]

\* await <call>: the call goes out and the invocation waits for its answer
Await(i, call, pc) == [i EXCEPT !.net = Append(@, call), !.pc = pc]

\* BaseTransactions._requireWalletClient: TRUE iff it does not throw
requireWalletClient(this) == this.walletClient # NoAddr

\* BaseClient._requireDataClient: TRUE iff it does not throw
requireDataClient(this) == this.dataClient

\* The outbound call of each mode; encoding call data is local
ExecutorCall(transactionType) ==
    CASE transactionType = "Transaction" -> "writeContract"
      [] transactionType = "GasEstimate" -> "estimateContractGas"
      [] OTHER -> "encodeFunctionData"

\* BaseTransactions._executeContractFunction, up to its await
executeContractFunction(this, i, request) ==
    LET j == [i EXCEPT !.req = request]
    IN  IF /\ \/ this.transactionType = "Transaction"
              \/ this.shouldRequireWalletClient
           /\ ~requireWalletClient(this)
        THEN Throw(j, "MissingSignerError")
        ELSE IF j.chain \notin SupportedChainIds
        THEN Throw(j, "UnsupportedChainError")
        ELSE Await(j, ExecutorCall(this.transactionType), "awaitExecutor")

\* ---------------------------------------------------- waterfall builders
\* the four arguments of createWaterfallModule, once the sizes are resolved
createWaterfallModuleRequest(this, i) ==
    LET a == i.args
        nonWaterfallRecipient ==
            IF a.nonWaterfallRecipient = UndefinedAddr THEN zeroAddress
            ELSE a.nonWaterfallRecipient
    IN  [contractAddress |-> getWaterfallFactoryAddress(i.chain),
         functionName |-> "createWaterfallModule",
         functionArgs |->
            <<getAddress(a.token), getAddress(nonWaterfallRecipient),
              [k \in 1..Len(a.tranches) |-> getAddress(a.tranches[k].recipient)],
              [k \in 1..Len(a.tranches) |-> a.tranches[k].size * (10 ^ i.decimals)]>>,
         transactionOverrides |-> Overrides(a.transactionOverrides)]

\* _createWaterfallModuleTransaction up to `await getTrancheRecipientsAndSizes`
createWaterfallModuleTransaction(this, i) ==
    LET a == i.args
        nonWaterfallRecipient ==
            IF a.nonWaterfallRecipient = UndefinedAddr THEN zeroAddress
            ELSE a.nonWaterfallRecipient
    IN  IF \/ ~validateAddress(a.token)
           \/ ~validateAddress(nonWaterfallRecipient)
           \/ ~validateWaterfallTranches(a.tranches)
        THEN Throw(i, "InvalidArgumentError")
        ELSE IF this.shouldRequireWalletClient /\ ~requireWalletClient(this)
        THEN Throw(i, "MissingSignerError")
        ELSE Await([i EXCEPT !.chain = getFunctionChainId(a.chainId)],
                   "getTrancheRecipientsAndSizes", "awaitTrancheSizes")

\* mutant: the call-data object skips the address normalisation
waterfallFundsRequestByMode(this, i) ==
    [contractAddress |-> IF this.transactionType = "CallData"
                         THEN i.args.waterfallModuleAddress
                         ELSE getAddress(i.args.waterfallModuleAddress),
     functionName |-> IF i.args.usePull = "true" THEN "waterfallFundsPull"
                      ELSE "waterfallFunds",
     functionArgs |-> <<>>,
     transactionOverrides |-> Overrides(i.args.transactionOverrides)]

waterfallFundsRequest(this, i) ==
    [contractAddress |-> getAddress(i.args.waterfallModuleAddress),
     functionName |-> IF i.args.usePull = "true" THEN "waterfallFundsPull"
                      ELSE "waterfallFunds",
     functionArgs |-> <<>>,
     transactionOverrides |-> Overrides(i.args.transactionOverrides)]

\* _waterfallFundsTransaction up to `await this._executeContractFunction`
waterfallFundsTransaction(this, i) ==
    IF ~validateAddress(i.args.waterfallModuleAddress)
    THEN Throw(i, "InvalidArgumentError")
    ELSE IF this.shouldRequireWalletClient /\ ~requireWalletClient(this)
    THEN Throw(i, "MissingSignerError")
    ELSE executeContractFunction(this, [i EXCEPT !.chain = DefaultChainId],
                                 waterfallFundsRequest(this, i))

recoverNonWaterfallFundsRequest(this, i) ==
    LET a == i.args
        recipient == IF a.recipient = UndefinedAddr THEN zeroAddress ELSE a.recipient
    IN  [contractAddress |-> getAddress(a.waterfallModuleAddress),
         functionName |-> "recoverNonWaterfallFunds",
         functionArgs |-> <<a.token, recipient>>,
         transactionOverrides |-> Overrides(a.transactionOverrides)]

\* mutant: the data client is not required before the metadata lookup
recoverNonWaterfallFundsDataClientUnchecked(this, i) ==
    LET a == i.args
        recipient == IF a.recipient = UndefinedAddr THEN zeroAddress ELSE a.recipient
    IN  IF \/ ~validateAddress(a.waterfallModuleAddress)
           \/ ~validateAddress(a.token)
           \/ ~validateAddress(recipient)
        THEN Throw(i, "InvalidArgumentError")
        ELSE IF ~requireWalletClient(this)
        THEN Throw(i, "MissingSignerError")
        ELSE Await([i EXCEPT !.chain = getFunctionChainId(a.chainId)],
                   "getWaterfallMetadata", "awaitMetadata")

\* _recoverNonWaterfallFundsTransaction and _validateRecoverTokensWaterfallData
\* up to `await this._dataClient!.getWaterfallMetadata`
recoverNonWaterfallFundsTransaction(this, i) ==
    LET a == i.args
        recipient == IF a.recipient = UndefinedAddr THEN zeroAddress ELSE a.recipient
    IN  IF \/ ~validateAddress(a.waterfallModuleAddress)
           \/ ~validateAddress(a.token)
           \/ ~validateAddress(recipient)
        THEN Throw(i, "InvalidArgumentError")
        ELSE IF ~requireWalletClient(this)
        THEN Throw(i, "MissingSignerError")
        ELSE IF ~requireDataClient(this)
        THEN Throw(i, "MissingDataClientError")
        ELSE Await([i EXCEPT !.chain = getFunctionChainId(a.chainId)],
                   "getWaterfallMetadata", "awaitMetadata")

\* mutant: the reduce starts from true
foundRecipientSeededTrue(tranches, recipient) == TRUE

\* the reduce over waterfallMetadata.tranches
RECURSIVE foundRecipient(_, _)
foundRecipient(tranches, recipient) ==
    IF tranches = <<>> THEN FALSE
    ELSE \/ toLowerCase(tranches[1]) = toLowerCase(recipient)
         \/ foundRecipient(Tail(tranches), recipient)

\* mutant: a tranche recipient is accepted whatever the non-waterfall recipient
validateRecoverTokensTrancheAlwaysAccepted(waterfallMetadata, token, recipient) ==
    IF toLowerCase(token) = toLowerCase(waterfallMetadata.token)
    THEN "InvalidArgumentError"
    ELSE IF /\ waterfallMetadata.nonWaterfallRecipient # UndefinedAddr
            /\ waterfallMetadata.nonWaterfallRecipient # zeroAddress
            /\ toLowerCase(recipient) = toLowerCase(waterfallMetadata.nonWaterfallRecipient)
    THEN "none"
    ELSE IF ~foundRecipient(waterfallMetadata.tranches, recipient)
    THEN "InvalidArgumentError"
    ELSE "none"

\* mutant: the tokens are compared as written, without toLowerCase
validateRecoverTokensCaseSensitive(waterfallMetadata, token, recipient) ==
    IF token = waterfallMetadata.token
    THEN "InvalidArgumentError"
    ELSE IF /\ waterfallMetadata.nonWaterfallRecipient # UndefinedAddr
            /\ waterfallMetadata.nonWaterfallRecipient # zeroAddress
    THEN IF toLowerCase(recipient) # toLowerCase(waterfallMetadata.nonWaterfallRecipient)
         THEN "InvalidArgumentError"
         ELSE "none"
    ELSE IF ~foundRecipient(waterfallMetadata.tranches, recipient)
    THEN "InvalidArgumentError"
    ELSE "none"

\* _validateRecoverTokensWaterfallData after the metadata arrived: the error
\* it throws, or "none"
validateRecoverTokensWaterfallData(waterfallMetadata, token, recipient) ==
    IF toLowerCase(token) = toLowerCase(waterfallMetadata.token)
    THEN "InvalidArgumentError"
    ELSE IF /\ waterfallMetadata.nonWaterfallRecipient # UndefinedAddr
            /\ waterfallMetadata.nonWaterfallRecipient # zeroAddress
    THEN IF toLowerCase(recipient) # toLowerCase(waterfallMetadata.nonWaterfallRecipient)
         THEN "InvalidArgumentError"
         ELSE "none"
    ELSE IF ~foundRecipient(waterfallMetadata.tranches, recipient)
    THEN "InvalidArgumentError"
    ELSE "none"

withdrawPullFundsRequest(this, i) ==
    [contractAddress |-> getAddress(i.args.waterfallModuleAddress),
     functionName |-> "withdraw",
     functionArgs |-> <<i.args.address>>,
     transactionOverrides |-> Overrides(i.args.transactionOverrides)]

\* mutant: the signer is required only under the signer policy
withdrawPullFundsSignerByPolicy(this, i) ==
    IF \/ ~validateAddress(i.args.waterfallModuleAddress)
       \/ ~validateAddress(i.args.address)
    THEN Throw(i, "InvalidArgumentError")
    ELSE IF this.shouldRequireWalletClient /\ ~requireWalletClient(this)
    THEN Throw(i, "MissingSignerError")
    ELSE executeContractFunction(this, [i EXCEPT !.chain = DefaultChainId],
                                 withdrawPullFundsRequest(this, i))

\* _withdrawPullFundsTransaction up to `await this._executeContractFunction`
withdrawPullFundsTransaction(this, i) ==
    IF \/ ~validateAddress(i.args.waterfallModuleAddress)
       \/ ~validateAddress(i.args.address)
    THEN Throw(i, "InvalidArgumentError")
    ELSE IF ~requireWalletClient(this)
    THEN Throw(i, "MissingSignerError")
    ELSE executeContractFunction(this, [i EXCEPT !.chain = DefaultChainId],
                                 withdrawPullFundsRequest(this, i))

\* ------------------------------------------- pass-through-wallet builders
createPassThroughWalletRequest(this, i) ==
    LET a == i.args
    IN  [contractAddress |-> getPassThroughWalletFactoryAddress(i.chain),
         functionName |-> "createPassThroughWallet",
         functionArgs |->
            <<<<a.owner,
                IF a.paused = "undefined" THEN "false" ELSE a.paused,
                a.passThrough>>>>,
         transactionOverrides |-> Overrides(a.transactionOverrides)]

\* _createPassThroughWalletTransaction up to `await this._executeContractFunction`
createPassThroughWalletTransaction(this, i) ==
    IF \/ ~validateAddress(i.args.owner)
       \/ ~validateAddress(i.args.passThrough)
    THEN Throw(i, "InvalidArgumentError")
    ELSE IF this.shouldRequireWalletClient /\ ~requireWalletClient(this)
    THEN Throw(i, "MissingSignerError")
    ELSE LET j == [i EXCEPT !.chain = getFunctionChainId(i.args.chainId)]
         IN  executeContractFunction(this, j, createPassThroughWalletRequest(this, j))

passThroughTokensRequest(this, i) ==
    [contractAddress |-> getAddress(i.args.passThroughWalletAddress),
     functionName |-> "passThroughTokens",
     functionArgs |-> <<i.args.tokens>>,
     transactionOverrides |-> Overrides(i.args.transactionOverrides)]

\* mutant: the elements of the tokens list are not validated
passThroughTokensListUnvalidated(this, i) ==
    IF ~validateAddress(i.args.passThroughWalletAddress)
    THEN Throw(i, "InvalidArgumentError")
    ELSE IF this.shouldRequireWalletClient /\ ~requireWalletClient(this)
    THEN Throw(i, "MissingSignerError")
    ELSE executeContractFunction(this, [i EXCEPT !.chain = DefaultChainId],
                                 passThroughTokensRequest(this, i))

\* _passThroughTokensTransaction up to `await this._executeContractFunction`
passThroughTokensTransaction(this, i) ==
    IF \/ ~validateAddress(i.args.passThroughWalletAddress)
       \/ \E k \in 1..Len(i.args.tokens) : ~validateAddress(i.args.tokens[k])
    THEN Throw(i, "InvalidArgumentError")
    ELSE IF this.shouldRequireWalletClient /\ ~requireWalletClient(this)
    THEN Throw(i, "MissingSignerError")
    ELSE executeContractFunction(this, [i EXCEPT !.chain = DefaultChainId],
                                 passThroughTokensRequest(this, i))

\* _requireOwner up to `await passThroughWalletContract.read.owner()`
requireOwner(this, i) ==
    IF ~requireWalletClient(this)
    THEN Throw(i, "MissingSignerError")
    ELSE Await([i EXCEPT !.chain = DefaultChainId], "owner", "awaitOwner")

\* _requireOwner after the read: `owner !== walletAddress` throws
ownerMismatch(owner, walletAddress) == owner # walletAddress

setPassThroughRequest(this, i) ==
    [contractAddress |-> getAddress(i.args.passThroughWalletAddress),
     functionName |-> "setPassThrough",
     functionArgs |-> <<i.args.passThrough>>,
     transactionOverrides |-> Overrides(i.args.transactionOverrides)]

\* _setPassThroughTransaction up to its first await
setPassThroughTransaction(this, i) ==
    IF \/ ~validateAddress(i.args.passThroughWalletAddress)
       \/ ~validateAddress(i.args.passThrough)
    THEN Throw(i, "InvalidArgumentError")
    ELSE IF this.shouldRequireWalletClient
    THEN IF ~requireWalletClient(this)
         THEN Throw(i, "MissingSignerError")
         ELSE requireOwner(this, i)
    ELSE executeContractFunction(this, [i EXCEPT !.chain = DefaultChainId],
                                 setPassThroughRequest(this, i))

setPausedRequest(this, i) ==
    [contractAddress |-> getAddress(i.args.passThroughWalletAddress),
     functionName |-> "setPaused",
     functionArgs |-> <<i.args.paused>>,
     transactionOverrides |-> Overrides(i.args.transactionOverrides)]

\* mutant: the owner check runs whatever the signer policy
setPausedAlwaysRequiresOwner(this, i) ==
    IF ~validateAddress(i.args.passThroughWalletAddress)
    THEN Throw(i, "InvalidArgumentError")
    ELSE IF ~requireWalletClient(this)
    THEN Throw(i, "MissingSignerError")
    ELSE requireOwner(this, i)

\* _setPausedTransaction up to its first await
setPausedTransaction(this, i) ==
    IF ~validateAddress(i.args.passThroughWalletAddress)
    THEN Throw(i, "InvalidArgumentError")
    ELSE IF this.shouldRequireWalletClient
    THEN IF ~requireWalletClient(this)
         THEN Throw(i, "MissingSignerError")
         ELSE requireOwner(this, i)
    ELSE executeContractFunction(this, [i EXCEPT !.chain = DefaultChainId],
                                 setPausedRequest(this, i))

execCallsRequest(this, i) ==
    [contractAddress |-> getAddress(i.args.passThroughWalletAddress),
     functionName |-> "execCalls",
     functionArgs |->
        <<[k \in 1..Len(i.args.calls) |->
            <<i.args.calls[k].to, i.args.calls[k].value, i.args.calls[k].data>>]>>,
     transactionOverrides |-> Overrides(i.args.transactionOverrides)]

\* _execCallsTransaction up to its first await
execCallsTransaction(this, i) ==
    IF \/ ~validateAddress(i.args.passThroughWalletAddress)
       \/ \E k \in 1..Len(i.args.calls) : ~validateAddress(i.args.calls[k].to)
    THEN Throw(i, "InvalidArgumentError")
    ELSE IF this.shouldRequireWalletClient
    THEN IF ~requireWalletClient(this)
         THEN Throw(i, "MissingSignerError")
         ELSE requireOwner(this, i)
    ELSE executeContractFunction(this, [i EXCEPT !.chain = DefaultChainId],
                                 execCallsRequest(this, i))

\* the request of an owner-gated operation, built after _requireOwner returned
OwnerGatedRequest(this, i) ==
    CASE i.op = "setPassThrough" -> setPassThroughRequest(this, i)
      [] i.op = "setPaused" -> setPausedRequest(this, i)
      [] OTHER -> execCallsRequest(this, i)

\* ----------------------------------------------------------------- facades
\* BaseTransactions._isContractTransaction / _isBigInt / _isCallData
isContractTransaction(res) == res.kind = "TxHash"
isBigInt(res) == res.kind = "GasEstimate"
isCallData(res) == res.kind = "CallData"

\* return <value>
Return(i, value) ==
    [i EXCEPT !.pc = "done",
              !.out = [status |-> "ok", error |-> "none", value |-> value]]

\* mutant: the submitted hash is kept in one place for all invocations, so the
\* lookup takes the hash of the invocation in slot 1 when that one has a hash
AwaitTransactionEventsSharedHash(i, txHash, eventTopics) ==
    Await([i EXCEPT !.lookup =
                [txHash |-> IF inv[1].res.kind = "TxHash" THEN inv[1].res.value
                            ELSE txHash,
                 eventTopics |-> eventTopics]],
          "getTransactionEvents", "awaitEvents")

\* mutant: the events are looked up twice
AwaitTransactionEventsTwice(i, txHash, eventTopics) ==
    Await(Await([i EXCEPT !.lookup = [txHash |-> txHash, eventTopics |-> eventTopics]],
                "getTransactionEvents", "awaitEvents"),
          "getTransactionEvents", "awaitEvents")

\* `await this.getTransactionEvents({ txHash, eventTopics })`
AwaitTransactionEvents(i, txHash, eventTopics) ==
    Await([i EXCEPT !.lookup = [txHash |-> txHash, eventTopics |-> eventTopics]],
          "getTransactionEvents", "awaitEvents")

\* mutant: the submit step does not check the variant
WaterfallClientSubmitUnchecked(i, txHash) ==
    AwaitTransactionEvents(i, txHash.value, waterfall.eventTopics[i.op])

\* WaterfallClient._submit<Op>Transaction after the builder returned, and the
\* write action up to `await this.getTransactionEvents`
WaterfallClientSubmit(i, txHash) ==
    IF ~isContractTransaction(txHash)
    THEN Throw(i, "UnexpectedResponseError")
    ELSE AwaitTransactionEvents(i, txHash.value, waterfall.eventTopics[i.op])

\* WaterfallGasEstimates.<op> after the builder returned
WaterfallGasEstimatesResult(i, gasEstimate) ==
    IF ~isBigInt(gasEstimate)
    THEN Throw(i, "UnexpectedResponseError")
    ELSE Return(i, gasEstimate.value)

\* WaterfallCallData.<op> after the builder returned
WaterfallCallDataResult(i, callData) ==
    IF ~isCallData(callData)
    THEN Throw(i, "UnexpectedResponseError")
    ELSE Return(i, callData.value)

\* PassThroughWalletClient._submit<Op>Transaction after the builder returned,
\* and the write action up to `await this.getTransactionEvents`
PassThroughWalletClientSubmit(i, txHash) ==
    IF ~isContractTransaction(txHash)
    THEN Throw(i, "UnexpectedResponseError")
    ELSE AwaitTransactionEvents(i, txHash.value, passThroughWallet.eventTopics[i.op])

\* mutant: the estimate is returned without the variant check
PassThroughWalletGasEstimatesUnchecked(i, gasEstimate) ==
    Return(i, gasEstimate.value)

\* PassThroughWalletGasEstimates.<op> after the builder returned
PassThroughWalletGasEstimatesResult(i, gasEstimate) ==
    IF ~isBigInt(gasEstimate)
    THEN Throw(i, "UnexpectedResponseError")
    ELSE Return(i, gasEstimate.value)

\* PassThroughWalletCallData.<op> after the builder returned
PassThroughWalletCallDataResult(i, callData) ==
    IF ~isCallData(callData)
    THEN Throw(i, "UnexpectedResponseError")
    ELSE Return(i, callData.value)

\* the facade method that called the builder takes the builder's result
FacadeResult(i, res) ==
    LET j == [i EXCEPT !.res = res]
    IN  IF i.op \in WaterfallOps
        THEN CASE i.self = "client" -> WaterfallClientSubmit(j, res)
               [] i.self = "estimateGas" -> WaterfallGasEstimatesResult(j, res)
               [] OTHER -> WaterfallCallDataResult(j, res)
        ELSE CASE i.self = "client" -> PassThroughWalletClientSubmit(j, res)
               [] i.self = "estimateGas" -> PassThroughWalletGasEstimatesResult(j, res)
               [] OTHER -> PassThroughWalletCallDataResult(j, res)

\* BaseClientMixin.getTransactionEvents: the receipt's logs whose first topic
\* is among eventTopics, in the receipt's order
RECURSIVE getTransactionEvents(_, _)
getTransactionEvents(logs, eventTopics) ==
    IF logs = <<>> THEN <<>>
    ELSE IF \E k \in 1..Len(eventTopics) : eventTopics[k] = logs[1].topic
    THEN <<logs[1]>> \o getTransactionEvents(Tail(logs), eventTopics)
    ELSE getTransactionEvents(Tail(logs), eventTopics)

\* decodeEventLog(...).args.waterfallModule / .passThroughWallet
decodeEventLog(event) == event.data

NoLog == [topic |-> "none", data |-> NoAddr]

\* mutant: the last event instead of the first
lastEvent(events) == IF Len(events) > 0 THEN events[Len(events)] ELSE NoLog

\* `events.length > 0 ? events[0] : undefined`
firstEvent(events) == IF Len(events) > 0 THEN events[1] ELSE NoLog

\* a WaterfallClient write action after `await this.getTransactionEvents`
WaterfallClientEvents(i, events) ==
    LET event == firstEvent(events)
    IN  IF event # NoLog
        THEN IF i.op = "createWaterfallModule"
             THEN Return(i, [address |-> decodeEventLog(event), event |-> event])
             ELSE Return(i, [address |-> NoAddr, event |-> event])
        ELSE Throw(i, "TransactionFailedError")

\* a PassThroughWalletClient write action after `await this.getTransactionEvents`
PassThroughWalletClientEvents(i, events) ==
    LET event == firstEvent(events)
    IN  IF event # NoLog
        THEN IF i.op = "createPassThroughWallet"
             THEN Return(i, [address |-> decodeEventLog(event), event |-> event])
             ELSE Return(i, [address |-> NoAddr, event |-> event])
        ELSE Throw(i, "TransactionFailedError")

\* ------------------------------------------------- the code after an await
\* _createWaterfallModuleTransaction after getTrancheRecipientsAndSizes
createWaterfallModuleResolved(this, i, decimals) ==
    LET j == [i EXCEPT !.decimals = decimals]
    IN  executeContractFunction(this, j, createWaterfallModuleRequest(this, j))

\* mutant: the metadata is checked after the executor was called
recoverNonWaterfallFundsValidatedLate(this, i, waterfallMetadata) ==
    LET j == [i EXCEPT !.meta = waterfallMetadata]
        recipient == IF i.args.recipient = UndefinedAddr THEN zeroAddress
                     ELSE i.args.recipient
        error == validateRecoverTokensWaterfallData(waterfallMetadata,
                                                    i.args.token, recipient)
        k == executeContractFunction(this, j, recoverNonWaterfallFundsRequest(this, j))
    IN  IF error # "none" THEN Throw(k, error) ELSE k

\* _recoverNonWaterfallFundsTransaction after getWaterfallMetadata
recoverNonWaterfallFundsValidated(this, i, waterfallMetadata) ==
    LET j == [i EXCEPT !.meta = waterfallMetadata]
        recipient == IF i.args.recipient = UndefinedAddr THEN zeroAddress
                     ELSE i.args.recipient
        error == validateRecoverTokensWaterfallData(waterfallMetadata,
                                                    i.args.token, recipient)
    IN  IF error # "none" THEN Throw(j, error)
        ELSE executeContractFunction(this, j, recoverNonWaterfallFundsRequest(this, j))

\* mutant: the owner is read and the comparison's outcome dropped
requireOwnerReturnedUnchecked(this, i, owner) ==
    LET j == [i EXCEPT !.owner = owner]
    IN  executeContractFunction(this, j, OwnerGatedRequest(this, j))

\* _set*/_execCallsTransaction after `passThroughWalletContract.read.owner()`
requireOwnerReturned(this, i, owner) ==
    LET j == [i EXCEPT !.owner = owner]
    IN  IF ownerMismatch(owner, this.walletClient)
        THEN Throw(j, "InvalidAuthError")
        ELSE executeContractFunction(this, j, OwnerGatedRequest(this, j))

\* what _executeContractFunction returns in each mode
ExecutorResults(transactionType, request) ==
    CASE transactionType = "Transaction" ->
            {[kind |-> "TxHash", value |-> h] : h \in {"0xhash1", "0xhash2"}}
      [] transactionType = "GasEstimate" ->
            {[kind |-> "GasEstimate", value |-> 21000]}
      [] OTHER ->
            {[kind |-> "CallData",
              value |-> [address |-> request.contractAddress,
                         data |-> <<request.functionName, request.functionArgs>>]]}

\* ------------------------------------------------------------------ inputs
SeqsUpTo(S, n) == UNION {[1..k -> S] : k \in 0..n}

Facades == {"client", "estimateGas", "callData"}
TransactionTypes == {"Transaction", "GasEstimate", "CallData"}
Al == Addr("A", "lower")
As == Addr("A", "sum")
Bs == Addr("B", "sum")
Cs == Addr("C", "sum")
Wl == Addr("W", "lower")

ModuleAddresses == {Wl, Malformed}
OverridesIn == {"undefined", "{gas}"}
ChainIdsIn == {"undefined", "chain5", "chain99"}
TranchesIn == {[recipient |-> Al, size |-> 1], [recipient |-> Bs, size |-> 1],
               [recipient |-> Bs, size |-> 2]}

ClientArgs ==
    [walletClient : {NoAddr, Al, As},
     dataClient : BOOLEAN,
     requireSignerForEstimates : BOOLEAN]

CreateWaterfallArgs ==
    [token : {Al, Malformed},
     tranches : SeqsUpTo(TranchesIn, MaxTranches),
     nonWaterfallRecipient : {UndefinedAddr, Bs, Malformed},
     chainId : ChainIdsIn,
     transactionOverrides : OverridesIn]

WaterfallFundsArgs ==
    [waterfallModuleAddress : ModuleAddresses,
     usePull : {"undefined", "true"},
     transactionOverrides : OverridesIn]

RecoverNonWaterfallFundsArgs ==
    [waterfallModuleAddress : ModuleAddresses,
     token : {Al, Bs, Malformed},
     recipient : {UndefinedAddr, Al, Bs, Cs, Malformed},
     chainId : ChainIdsIn,
     transactionOverrides : OverridesIn]

WithdrawPullFundsArgs ==
    [waterfallModuleAddress : ModuleAddresses,
     address : {Al, Malformed},
     transactionOverrides : OverridesIn]

CreatePassThroughWalletArgs ==
    [owner : {Al, Malformed},
     paused : {"undefined", "true"},
     passThrough : {Bs, Malformed},
     chainId : ChainIdsIn,
     transactionOverrides : OverridesIn]

PassThroughTokensArgs ==
    [passThroughWalletAddress : ModuleAddresses,
     tokens : SeqsUpTo({Al, Malformed}, MaxList),
     transactionOverrides : OverridesIn]

SetPassThroughArgs ==
    [passThroughWalletAddress : ModuleAddresses,
     passThrough : {Bs, Malformed},
     transactionOverrides : OverridesIn]

SetPausedArgs ==
    [passThroughWalletAddress : ModuleAddresses,
     paused : {"true", "false"},
     transactionOverrides : OverridesIn]

ExecCallsArgs ==
    [passThroughWalletAddress : ModuleAddresses,
     calls : SeqsUpTo([to : {Al, Malformed}, value : {0}, data : {"0x"}], MaxList),
     transactionOverrides : OverridesIn]

\* answers of the collaborators
OwnersRead == {As, Bs}
DecimalsRead == {0, 1}
WaterfallMetadata ==
    [token : {As, Bs},
     nonWaterfallRecipient : {UndefinedAddr, zeroAddress, As, Bs},
     tranches : SeqsUpTo({As, Bs}, MaxTranches)]
ReceiptLogs(op) ==
    SeqsUpTo([topic : {EventTopicsOf(op)[1], encodeEventTopics("Transfer")},
              data : {Addr("M1", "sum"), Addr("M2", "sum")}], MaxLogs)

\* ----------------------------------------------------------------- actions
Init ==
    /\ \E clientArgs \in ClientArgs :
        /\ waterfall = WaterfallClient(clientArgs)
        /\ passThroughWallet = PassThroughWalletClient(clientArgs)
    /\ inv = [s \in Slots |-> Idle]
    /\ callers = {1}

\* mutant: a call through client.callData leaves its mode on the client
InvokeSharingMode(s, started) ==
    /\ inv' = [inv EXCEPT ![s] = started]
    /\ waterfall' = [waterfall EXCEPT !.base.transactionType =
                        IF started.self = "callData" THEN "CallData" ELSE @]
    /\ UNCHANGED <<passThroughWallet, callers>>

\* the invocation in slot s has run up to its first await
Invoke(s, started) ==
    /\ inv' = [inv EXCEPT ![s] = started]
    /\ UNCHANGED <<waterfall, passThroughWallet, callers>>

\* a call of facade method `op` of `self` with `args`
Call(self, op, args) == [Idle EXCEPT !.pc = "called", !.self = self, !.op = op,
                                     !.args = args]

createWaterfallModule(s) ==
    /\ s \in callers
    /\ inv[s].pc = "idle"
    /\ \E self \in Facades, args \in CreateWaterfallArgs :
        Invoke(s, createWaterfallModuleTransaction(This(self, "createWaterfallModule"),
                                  Call(self, "createWaterfallModule", args)))

waterfallFunds(s) ==
    /\ s \in callers
    /\ inv[s].pc = "idle"
    /\ \E self \in Facades, args \in WaterfallFundsArgs :
        Invoke(s, waterfallFundsTransaction(This(self, "waterfallFunds"),
                                  Call(self, "waterfallFunds", args)))

recoverNonWaterfallFunds(s) ==
    /\ s \in callers
    /\ inv[s].pc = "idle"
    /\ \E self \in Facades, args \in RecoverNonWaterfallFundsArgs :
        Invoke(s, recoverNonWaterfallFundsTransaction(This(self, "recoverNonWaterfallFunds"),
                                  Call(self, "recoverNonWaterfallFunds", args)))

withdrawPullFunds(s) ==
    /\ s \in callers
    /\ inv[s].pc = "idle"
    /\ \E self \in Facades, args \in WithdrawPullFundsArgs :
        Invoke(s, withdrawPullFundsTransaction(This(self, "withdrawPullFunds"),
                                  Call(self, "withdrawPullFunds", args)))

createPassThroughWallet(s) ==
    /\ s \in callers
    /\ inv[s].pc = "idle"
    /\ \E self \in Facades, args \in CreatePassThroughWalletArgs :
        Invoke(s, createPassThroughWalletTransaction(This(self, "createPassThroughWallet"),
                                  Call(self, "createPassThroughWallet", args)))

passThroughTokens(s) ==
    /\ s \in callers
    /\ inv[s].pc = "idle"
    /\ \E self \in Facades, args \in PassThroughTokensArgs :
        Invoke(s, passThroughTokensTransaction(This(self, "passThroughTokens"),
                                  Call(self, "passThroughTokens", args)))

setPassThrough(s) ==
    /\ s \in callers
    /\ inv[s].pc = "idle"
    /\ \E self \in Facades, args \in SetPassThroughArgs :
        Invoke(s, setPassThroughTransaction(This(self, "setPassThrough"),
                                  Call(self, "setPassThrough", args)))

setPaused(s) ==
    /\ s \in callers
    /\ inv[s].pc = "idle"
    /\ \E self \in Facades, args \in SetPausedArgs :
        Invoke(s, setPausedTransaction(This(self, "setPaused"),
                                  Call(self, "setPaused", args)))

execCalls(s) ==
    /\ s \in callers
    /\ inv[s].pc = "idle"
    /\ \E self \in Facades, args \in ExecCallsArgs :
        Invoke(s, execCallsTransaction(This(self, "execCalls"),
                                  Call(self, "execCalls", args)))

\* an awaited collaborator answers: the invocation in slot s resumes
Resume(s, pc, resumed) ==
    /\ inv[s].pc = pc
    /\ inv' = [inv EXCEPT ![s] = resumed]
    /\ UNCHANGED <<waterfall, passThroughWallet, callers>>

TrancheSizesReturn(s) ==
    /\ inv[s].pc = "awaitTrancheSizes"
    /\ \E decimals \in DecimalsRead :
        Resume(s, "awaitTrancheSizes",
               createWaterfallModuleResolved(This(inv[s].self, inv[s].op), inv[s], decimals))

MetadataReturns(s) ==
    /\ inv[s].pc = "awaitMetadata"
    /\ \E waterfallMetadata \in WaterfallMetadata :
        Resume(s, "awaitMetadata",
               recoverNonWaterfallFundsValidated(This(inv[s].self, inv[s].op), inv[s],
                                                 waterfallMetadata))

OwnerReturns(s) ==
    /\ inv[s].pc = "awaitOwner"
    /\ \E owner \in OwnersRead :
        Resume(s, "awaitOwner",
               requireOwnerReturned(This(inv[s].self, inv[s].op), inv[s], owner))

\* the executor returns the result of its mode
ExecutorReturns(s) ==
    /\ inv[s].pc = "awaitExecutor"
    /\ \E res \in ExecutorResults(This(inv[s].self, inv[s].op).transactionType, inv[s].req) :
        Resume(s, "awaitExecutor", FacadeResult(inv[s], res))

\* a defective executor returns the result of another mode
ExecutorDefect(s) ==
    /\ inv[s].pc = "awaitExecutor"
    /\ \E t \in TransactionTypes \ {This(inv[s].self, inv[s].op).transactionType} :
        \E res \in ExecutorResults(t, inv[s].req) :
            Resume(s, "awaitExecutor", FacadeResult(inv[s], res))

EventsReturn(s) ==
    /\ inv[s].pc = "awaitEvents"
    /\ \E logs \in ReceiptLogs(inv[s].op) :
        LET i == [inv[s] EXCEPT !.logs = logs]
            events == getTransactionEvents(logs, i.lookup.eventTopics)
        IN  Resume(s, "awaitEvents",
                   IF i.op \in WaterfallOps THEN WaterfallClientEvents(i, events)
                   ELSE PassThroughWalletClientEvents(i, events))

\* a network call fails: the transport's error reaches the caller unchanged
TransportFails(s) ==
    /\ inv[s].pc \in {"awaitTrancheSizes", "awaitMetadata", "awaitOwner",
                      "awaitExecutor", "awaitEvents"}
    /\ inv[s].net[Len(inv[s].net)] # "encodeFunctionData"
    /\ inv' = [inv EXCEPT ![s] = Throw(inv[s], "TransportError")]
    /\ UNCHANGED <<waterfall, passThroughWallet, callers>>

\* the caller has the promise's outcome; the slot is free for the next call
Settle(s) ==
    /\ inv[s].pc = "done"
    /\ inv' = [inv EXCEPT ![s] = Idle]
    /\ UNCHANGED <<waterfall, passThroughWallet, callers>>

Next ==
    \/ \E s \in Slots : createWaterfallModule(s)
    \/ \E s \in Slots : waterfallFunds(s)
    \/ \E s \in Slots : recoverNonWaterfallFunds(s)
    \/ \E s \in Slots : withdrawPullFunds(s)
    \/ \E s \in Slots : createPassThroughWallet(s)
    \/ \E s \in Slots : passThroughTokens(s)
    \/ \E s \in Slots : setPassThrough(s)
    \/ \E s \in Slots : setPaused(s)
    \/ \E s \in Slots : execCalls(s)
    \/ \E s \in Slots : TrancheSizesReturn(s)
    \/ \E s \in Slots : MetadataReturns(s)
    \/ \E s \in Slots : OwnerReturns(s)
    \/ \E s \in Slots : ExecutorReturns(s)
    \/ \E s \in Slots : ExecutorDefect(s)
    \/ \E s \in Slots : EventsReturn(s)
    \/ \E s \in Slots : TransportFails(s)
    \/ \E s \in Slots : Settle(s)

Spec == Init /\ [][Next]_vars

\* --------------------------------------------------- concurrent callers
\* the builder a facade method awaits, run up to its first await
Start(this, i) ==
    CASE i.op = "createWaterfallModule" -> createWaterfallModuleTransaction(this, i)
      [] i.op = "waterfallFunds" -> waterfallFundsTransaction(this, i)
      [] i.op = "recoverNonWaterfallFunds" -> recoverNonWaterfallFundsTransaction(this, i)
      [] i.op = "withdrawPullFunds" -> withdrawPullFundsTransaction(this, i)
      [] i.op = "createPassThroughWallet" -> createPassThroughWalletTransaction(this, i)
      [] i.op = "passThroughTokens" -> passThroughTokensTransaction(this, i)
      [] i.op = "setPassThrough" -> setPassThroughTransaction(this, i)
      [] i.op = "setPaused" -> setPausedTransaction(this, i)
      [] OTHER -> execCallsTransaction(this, i)

\* a configuration with a signer, a data client and the strict signer policy
ConcurrentClientArgs ==
    [walletClient |-> As, dataClient |-> TRUE, requireSignerForEstimates |-> TRUE]

\* the calls two callers make at the same time: one per awaited collaborator
ConcurrentCalls ==
    {Call("client", "setPaused",
          [passThroughWalletAddress |-> Wl, paused |-> "true",
           transactionOverrides |-> "undefined"]),
     Call("client", "waterfallFunds",
          [waterfallModuleAddress |-> Wl, usePull |-> "undefined",
           transactionOverrides |-> "undefined"]),
     Call("estimateGas", "recoverNonWaterfallFunds",
          [waterfallModuleAddress |-> Wl, token |-> Al, recipient |-> Bs,
           chainId |-> "undefined", transactionOverrides |-> "undefined"]),
     Call("callData", "createWaterfallModule",
          [token |-> Al, tranches |-> <<[recipient |-> Bs, size |-> 1]>>,
           nonWaterfallRecipient |-> UndefinedAddr, chainId |-> "undefined",
           transactionOverrides |-> "undefined"])}

InitConcurrent ==
    /\ waterfall = WaterfallClient(ConcurrentClientArgs)
    /\ passThroughWallet = PassThroughWalletClient(ConcurrentClientArgs)
    /\ inv = [s \in Slots |-> Idle]
    /\ callers = Slots

\* a caller calls a facade method while the other caller's call may be in flight
CallConcurrently(s) ==
    /\ s \in callers
    /\ inv[s].pc = "idle"
    /\ \E c \in ConcurrentCalls : Invoke(s, Start(This(c.self, c.op), c))

NextConcurrent ==
    \/ \E s \in Slots : CallConcurrently(s)
    \/ \E s \in Slots : TrancheSizesReturn(s)
    \/ \E s \in Slots : MetadataReturns(s)
    \/ \E s \in Slots : OwnerReturns(s)
    \/ \E s \in Slots : ExecutorReturns(s)
    \/ \E s \in Slots : ExecutorDefect(s)
    \/ \E s \in Slots : EventsReturn(s)
    \/ \E s \in Slots : TransportFails(s)
    \/ \E s \in Slots : Settle(s)

SpecConcurrent == InitConcurrent /\ [][NextConcurrent]_vars

\* ------------------------------------------------------------------ claims
ThisOf(i) == This(i.self, i.op)

\* call `c` went out during invocation i
Issued(i, c) == \E k \in 1..Len(i.net) : i.net[k] = c

ExecutorCalls == {"writeContract", "estimateContractGas", "encodeFunctionData"}

\* the executor was invoked / its outbound call went out
ExecutorInvoked(i) == i.req # NoReq
ExecutorCalled(i) == \E c \in ExecutorCalls : Issued(i, c)

\* the executor returned a result to the facade method
HasResult(i) == i.res.kind # "none"

\* the recipient recovery works with (`recipient = zeroAddress`)
RecoverRecipient(i) ==
    IF i.args.recipient = UndefinedAddr THEN zeroAddress ELSE i.args.recipient

SameAddress(a, b) == a.id = b.id

\* C1 (as claimed): on a client that requires a signer, an owner-gated
\* operation whose owner read returned fails with InvalidAuthError when the
\* signer differs from the owner ignoring letter case, and otherwise passes
\* the authorization check and invokes the executor.
C1_OwnerCheckIgnoresCase ==
    \A s \in Slots :
        LET i == inv[s]
        IN  (i.op \in OwnerGatedOps /\ i.owner # NoAddr) =>
                IF SameAddress(ThisOf(i).walletClient, i.owner)
                THEN i.out.error # "InvalidAuthError" /\ ExecutorInvoked(i)
                ELSE i.out.error = "InvalidAuthError" /\ ~ExecutorInvoked(i)

\* the signer is not the owner the contract reported
NonOwner(i) ==
    /\ i.op \in OwnerGatedOps
    /\ i.owner # NoAddr
    /\ ~SameAddress(ThisOf(i).walletClient, i.owner)

\* C2: on the Transaction client, an owner-gated call by a signer that is not
\* the owner ends in InvalidAuthError with nothing handed to the executor,
\* nothing submitted and no event lookup; and whenever such an operation reaches
\* the executor, the owner read went out first and named the signer.
C2_NonOwnerNeverSubmits ==
    \A s \in Slots :
        LET i == inv[s]
        IN  (i.self = "client" /\ i.op \in OwnerGatedOps) =>
                /\ NonOwner(i) =>
                      /\ i.pc = "done"
                      /\ i.out.error = "InvalidAuthError"
                      /\ ~ExecutorInvoked(i)
                      /\ i.net = <<"owner">>
                /\ ExecutorInvoked(i) =>
                      /\ i.net[1] = "owner"
                      /\ i.owner = ThisOf(i).walletClient

C2_Witness ==
    \E s \in Slots :
        /\ inv[s].self = "client"
        /\ inv[s].op = "setPaused"
        /\ NonOwner(inv[s])
        /\ inv[s].out.error = "InvalidAuthError"

\* C3: in every mode, recoverNonWaterfallFunds whose token is the primary
\* token of the fetched metadata (ignoring case) fails with InvalidArgumentError
\* whatever the recipient, and the executor is not invoked.
C3_PrimaryTokenRejected ==
    \A s \in Slots :
        LET i == inv[s]
        IN  (/\ i.op = "recoverNonWaterfallFunds"
             /\ i.meta # NoMeta
             /\ SameAddress(i.args.token, i.meta.token)) =>
                /\ i.pc = "done"
                /\ i.out.error = "InvalidArgumentError"
                /\ ~ExecutorInvoked(i)
                /\ ~ExecutorCalled(i)

\* the primary token in another letter case, with the module's own
\* non-waterfall recipient as the recipient
C3_Witness ==
    \E s \in Slots :
        LET i == inv[s]
        IN  /\ i.op = "recoverNonWaterfallFunds"
            /\ i.meta # NoMeta
            /\ SameAddress(i.args.token, i.meta.token)
            /\ i.args.token # i.meta.token
            /\ SameAddress(RecoverRecipient(i), i.meta.nonWaterfallRecipient)
            /\ i.out.error = "InvalidArgumentError"

\* the recipient is the metadata's non-waterfall recipient or a tranche's
KnownRecipient(meta, recipient) ==
    \/ /\ meta.nonWaterfallRecipient # UndefinedAddr
       /\ SameAddress(meta.nonWaterfallRecipient, recipient)
    \/ \E k \in 1..Len(meta.tranches) : SameAddress(meta.tranches[k], recipient)

\* C4: in every mode, recoverNonWaterfallFunds whose recipient is neither the
\* non-waterfall recipient nor a tranche recipient of the fetched metadata
\* fails with InvalidArgumentError whatever the token, and the executor is not
\* invoked.
C4_UnknownRecipientRejected ==
    \A s \in Slots :
        LET i == inv[s]
        IN  (/\ i.op = "recoverNonWaterfallFunds"
             /\ i.meta # NoMeta
             /\ ~KnownRecipient(i.meta, RecoverRecipient(i))) =>
                /\ i.pc = "done"
                /\ i.out.error = "InvalidArgumentError"
                /\ ~ExecutorInvoked(i)
                /\ ~ExecutorCalled(i)

\* an unknown recipient with a token that is not the primary token, on a
\* module without a non-waterfall recipient
C4_Witness ==
    \E s \in Slots :
        LET i == inv[s]
        IN  /\ i.op = "recoverNonWaterfallFunds"
            /\ i.meta # NoMeta
            /\ i.meta.nonWaterfallRecipient \in {UndefinedAddr, zeroAddress}
            /\ Len(i.meta.tranches) > 0
            /\ ~KnownRecipient(i.meta, RecoverRecipient(i))
            /\ ~SameAddress(i.args.token, i.meta.token)
            /\ i.out.error = "InvalidArgumentError"

\* C5 (as claimed): with no wallet client configured, no CallData-mode
\* operation fails because a signer is missing.
C5_CallDataNeedsNoSigner ==
    \A s \in Slots :
        LET i == inv[s]
        IN  (/\ i.pc # "idle"
             /\ ThisOf(i).transactionType = "CallData"
             /\ ThisOf(i).walletClient = NoAddr) =>
                i.out.error # "MissingSignerError"

\* C6 (as claimed): no invocation that ends in InvalidArgumentError has issued
\* a call beforehand.
C6_ValidationBeforeAnyCall ==
    \A s \in Slots :
        inv[s].out.error = "InvalidArgumentError" => inv[s].net = <<>>

\* C6 (amended): an invocation that ends in InvalidArgumentError has issued no
\* call and never invoked the executor, except that recoverNonWaterfallFunds
\* raises it for its primary-token and recipient checks after exactly one call,
\* the metadata lookup, its address arguments being well formed.
C6_ValidationBeforeAnyCallButMetadata ==
    \A s \in Slots :
        LET i == inv[s]
        IN  i.out.error = "InvalidArgumentError" =>
                /\ ~ExecutorInvoked(i)
                /\ \/ i.net = <<>> /\ i.meta = NoMeta
                   \/ /\ i.op = "recoverNonWaterfallFunds"
                      /\ i.net = <<"getWaterfallMetadata">>
                      /\ i.meta # NoMeta
                      /\ i.args.waterfallModuleAddress # Malformed
                      /\ i.args.token # Malformed
                      /\ i.args.recipient # Malformed

C6_Witness ==
    \E s \in Slots :
        /\ inv[s].op = "recoverNonWaterfallFunds"
        /\ inv[s].out.error = "InvalidArgumentError"
        /\ inv[s].net = <<"getWaterfallMetadata">>

\* how many times call `c` went out during invocation i
Count(i, c) == Cardinality({k \in 1..Len(i.net) : i.net[k] = c})

\* C7: a Transaction-facade method looks the events up at most once, as its
\* last call, right after the submission, with the hash the submission
\* returned and only when that result is a TxHash; an invocation that failed
\* validation, the signer check, the authorization check or the submission has
\* looked nothing up.  The other facades never look events up.
C7_EventLookupOnlyAfterSubmission ==
    \A s \in Slots :
        LET i == inv[s]
            n == Count(i, "getTransactionEvents")
        IN  /\ n <= 1
            /\ n = 1 =>
                  /\ i.self = "client"
                  /\ isContractTransaction(i.res)
                  /\ i.lookup.txHash = i.res.value
                  /\ i.lookup.eventTopics = EventTopicsOf(i.op)
                  /\ Len(i.net) >= 2
                  /\ i.net[Len(i.net)] = "getTransactionEvents"
                  /\ i.net[Len(i.net) - 1] = "writeContract"
            /\ n = 0 => i.lookup = NoLookup
            /\ (\/ i.out.error \in {"InvalidArgumentError", "MissingSignerError",
                                    "MissingDataClientError", "InvalidAuthError",
                                    "UnsupportedChainError", "UnexpectedResponseError"}
                \/ i.out.error = "TransportError" /\ ~HasResult(i)) => n = 0

C7_Witness ==
    \E s \in Slots :
        /\ inv[s].self = "client"
        /\ inv[s].pc = "awaitEvents"
        /\ Count(inv[s], "getTransactionEvents") = 1
        /\ isContractTransaction(inv[s].res)

\* the event lookup of invocation i was answered
EventsAnswered(i) ==
    /\ Issued(i, "getTransactionEvents")
    /\ i.pc = "done"
    /\ i.out.error # "TransportError"

\* the places of the receipt's logs that carry the operation's topic
Matching(i) == {k \in 1..Len(i.logs) : i.logs[k].topic = EventTopicsOf(i.op)[1]}

CreateOps == {"createWaterfallModule", "createPassThroughWallet"}

\* C8: a Transaction-facade method whose event lookup was answered fails with
\* TransactionFailedError when no log carries the operation's topic, and
\* otherwise returns the first such log (a create operation also the address
\* decoded from that log); it returns nothing without such a log.
C8_FirstMatchingEventOrFailure ==
    \A s \in Slots :
        LET i == inv[s]
        IN  i.self = "client" =>
                /\ EventsAnswered(i) =>
                      IF Matching(i) = {}
                      THEN i.out.error = "TransactionFailedError"
                      ELSE LET k == CHOOSE m \in Matching(i) :
                                        \A x \in Matching(i) : m <= x
                           IN  /\ i.out.status = "ok"
                               /\ i.out.value.event = i.logs[k]
                               /\ i.out.value.address =
                                    IF i.op \in CreateOps THEN i.logs[k].data
                                    ELSE NoAddr
                /\ i.out.status = "ok" => EventsAnswered(i) /\ Matching(i) # {}

\* a create operation returned, from a receipt with two different matching logs
C8_Witness ==
    \E s \in Slots :
        LET i == inv[s]
        IN  /\ i.self = "client"
            /\ i.op \in CreateOps
            /\ i.out.status = "ok"
            /\ Cardinality(Matching(i)) = 2
            /\ i.logs[1] # i.logs[2]

\* the result variant of a facade's mode
FacadeVariant(self) ==
    CASE self = "client" -> "TxHash"
      [] self = "estimateGas" -> "GasEstimate"
      [] OTHER -> "CallData"

\* C9: a facade method that got a result from the executor returns a value
\* only if the result is the variant of its mode (the GasEstimate and CallData
\* facades then return that very result), and fails with
\* UnexpectedResponseError for any other variant.
C9_WrongVariantNeverReturned ==
    \A s \in Slots :
        LET i == inv[s]
        IN  /\ i.out.status = "ok" => i.res.kind = FacadeVariant(i.self)
            /\ HasResult(i) =>
                  IF i.res.kind = FacadeVariant(i.self)
                  THEN /\ i.out.error # "UnexpectedResponseError"
                       /\ i.self # "client" =>
                            /\ i.pc = "done"
                            /\ i.out.status = "ok"
                            /\ i.out.value = i.res.value
                  ELSE /\ i.pc = "done"
                       /\ i.out.error = "UnexpectedResponseError"

C9_Witness ==
    \E s \in Slots :
        /\ HasResult(inv[s])
        /\ inv[s].res.kind # FacadeVariant(inv[s].self)
        /\ inv[s].out.error = "UnexpectedResponseError"

\* the request a builder hands to the executor when it runs on `this`
BuilderRequest(this, i) ==
    CASE i.op = "createWaterfallModule" -> createWaterfallModuleRequest(this, i)
      [] i.op = "waterfallFunds" -> waterfallFundsRequest(this, i)
      [] i.op = "recoverNonWaterfallFunds" -> recoverNonWaterfallFundsRequest(this, i)
      [] i.op = "withdrawPullFunds" -> withdrawPullFundsRequest(this, i)
      [] i.op = "createPassThroughWallet" -> createPassThroughWalletRequest(this, i)
      [] i.op = "passThroughTokens" -> passThroughTokensRequest(this, i)
      [] i.op = "setPassThrough" -> setPassThroughRequest(this, i)
      [] i.op = "setPaused" -> setPausedRequest(this, i)
      [] OTHER -> execCallsRequest(this, i)

\* C10: the request an invocation handed to the executor is the request the
\* same builder hands over, for the same arguments and collaborator answers,
\* when it runs on the object of each of the three modes.
C10_SameRequestInEveryMode ==
    \A s \in Slots :
        LET i == inv[s]
        IN  ExecutorInvoked(i) =>
                \A self \in Facades : BuilderRequest(This(self, i.op), i) = i.req

C10_Witness ==
    \E s \in Slots :
        LET i == inv[s]
        IN  /\ i.op = "createWaterfallModule"
            /\ i.self = "callData"
            /\ ExecutorInvoked(i)
            /\ i.decimals = 1
            /\ i.args.token # getAddress(i.args.token)
            /\ i.res.kind = "CallData"

\* the address-typed inputs of an invocation, optional ones with their default
AddressInputs(i) ==
    LET a == i.args
        Default(x) == IF x = UndefinedAddr THEN zeroAddress ELSE x
    IN  CASE i.op = "createWaterfallModule" ->
                {a.token, Default(a.nonWaterfallRecipient)}
          [] i.op = "waterfallFunds" -> {a.waterfallModuleAddress}
          [] i.op = "recoverNonWaterfallFunds" ->
                {a.waterfallModuleAddress, a.token, Default(a.recipient)}
          [] i.op = "withdrawPullFunds" -> {a.waterfallModuleAddress, a.address}
          [] i.op = "createPassThroughWallet" -> {a.owner, a.passThrough}
          [] i.op = "passThroughTokens" ->
                {a.passThroughWalletAddress} \cup {a.tokens[k] : k \in 1..Len(a.tokens)}
          [] i.op = "setPassThrough" -> {a.passThroughWalletAddress, a.passThrough}
          [] i.op = "setPaused" -> {a.passThroughWalletAddress}
          [] i.op = "execCalls" ->
                {a.passThroughWalletAddress} \cup {a.calls[k].to : k \in 1..Len(a.calls)}
          [] OTHER -> {}

\* C11: in every mode, an invocation with a malformed address among its
\* address-typed inputs ends in InvalidArgumentError with no request built and
\* no call issued, and every invocation that reached the executor has only
\* well-formed address inputs.
C11_MalformedAddressRejected ==
    \A s \in Slots :
        LET i == inv[s]
        IN  /\ (Malformed \in AddressInputs(i)) =>
                  /\ i.pc = "done"
                  /\ i.out.error = "InvalidArgumentError"
                  /\ ~ExecutorInvoked(i)
                  /\ i.net = <<>>
            /\ ExecutorInvoked(i) => Malformed \notin AddressInputs(i)

\* a tokens list with a malformed element was rejected although the wallet
\* address is well formed
C11_Witness ==
    \E s \in Slots :
        LET i == inv[s]
        IN  /\ i.op = "passThroughTokens"
            /\ i.args.passThroughWalletAddress # Malformed
            /\ \E k \in 1..Len(i.args.tokens) : i.args.tokens[k] = Malformed
            /\ i.out.error = "InvalidArgumentError"
            /\ ~ExecutorInvoked(i)

\* C12: on an object whose signer policy is off (_shouldRequireWalletClient
\* false), setPassThrough, setPaused and execCalls issue no owner read, never
\* end in InvalidAuthError or for a missing signer, and with well-formed
\* addresses go straight to the executor: its call is the first call issued.
C12_RelaxedPolicySkipsOwnerCheck ==
    \A s \in Slots :
        LET i == inv[s]
        IN  (i.op \in OwnerGatedOps /\ ~ThisOf(i).shouldRequireWalletClient) =>
                /\ ~Issued(i, "owner")
                /\ i.owner = NoAddr
                /\ i.out.error \notin {"InvalidAuthError", "MissingSignerError"}
                /\ Malformed \notin AddressInputs(i) =>
                      /\ ExecutorInvoked(i)
                      /\ i.chain \in SupportedChainIds =>
                            /\ Len(i.net) >= 1
                            /\ i.net[1] = ExecutorCall(ThisOf(i).transactionType)

\* a gas estimate of setPaused with the policy off and a signer configured
\* returned without the owner having been read
C12_Witness ==
    \E s \in Slots :
        LET i == inv[s]
        IN  /\ i.op = "setPaused"
            /\ i.self = "estimateGas"
            /\ ~ThisOf(i).shouldRequireWalletClient
            /\ ThisOf(i).walletClient # NoAddr
            /\ i.net = <<"estimateContractGas">>
            /\ i.owner = NoAddr
            /\ i.out.status = "ok"

\* the call a builder awaits before it invokes the executor, if any
ReadBeforeExecutor(i) ==
    CASE i.op = "createWaterfallModule" -> <<"getTrancheRecipientsAndSizes">>
      [] i.op = "recoverNonWaterfallFunds" -> <<"getWaterfallMetadata">>
      [] i.op \in OwnerGatedOps /\ ThisOf(i).shouldRequireWalletClient -> <<"owner">>
      [] OTHER -> <<>>

\* the calls of an invocation that runs to a result, in order
CallsOfRun(i) ==
    ReadBeforeExecutor(i) \o <<ExecutorCall(ThisOf(i).transactionType)>>
        \o (IF i.self = "client" THEN <<"getTransactionEvents">> ELSE <<>>)

IsPrefix(p, q) ==
    /\ Len(p) <= Len(q)
    /\ \A k \in 1..Len(p) : p[k] = q[k]

\* C13 (as claimed): an invocation that returns a result issued exactly one
\* call, the executor's, or on the Transaction facade exactly two, the
\* submission and then the event lookup.
C13_OneCallPerInvocation ==
    \A s \in Slots :
        LET i == inv[s]
        IN  i.out.status = "ok" =>
                i.net = <<ExecutorCall(ThisOf(i).transactionType)>>
                            \o (IF i.self = "client" THEN <<"getTransactionEvents">>
                                ELSE <<>>)

\* C13 (amended): every invocation issues the executor's call at most once
\* and, on the Transaction facade, one event lookup after it; before the
\* executor's call it issues at most one more call, and only these:
\* the tranche-size resolution of createWaterfallModule, the metadata lookup
\* of recoverNonWaterfallFunds, and the owner read of an owner-gated operation
\* on an object that requires a signer.  An invocation that returns a result
\* issued exactly these calls, in this order.
C13_OneExecutorCallAfterAtMostOneRead ==
    \A s \in Slots :
        LET i == inv[s]
        IN  i.pc # "idle" =>
                /\ IsPrefix(i.net, CallsOfRun(i))
                /\ i.out.status = "ok" => i.net = CallsOfRun(i)

\* setPaused on the Transaction client returned its event after three calls
C13_Witness ==
    \E s \in Slots :
        LET i == inv[s]
        IN  /\ i.op = "setPaused"
            /\ i.self = "client"
            /\ i.out.status = "ok"
            /\ i.net = <<"owner", "writeContract", "getTransactionEvents">>

\* C14: in every reachable state each client is in Transaction mode, its
\* callData and estimateGas objects are in CallData and GasEstimate mode, and
\* its eventTopics table is the one the constructor computed.
C14_ModeAndTopicsNeverChange ==
    /\ \A c \in {waterfall, passThroughWallet} :
        /\ c.base.transactionType = "Transaction"
        /\ c.callData.transactionType = "CallData"
        /\ c.estimateGas.transactionType = "GasEstimate"
    /\ waterfall.eventTopics = WaterfallEventTopics
    /\ passThroughWallet.eventTopics = PassThroughWalletEventTopics
    /\ \E clientArgs \in ClientArgs :
        /\ waterfall = WaterfallClient(clientArgs)
        /\ passThroughWallet = PassThroughWalletClient(clientArgs)

\* a write action of the pass-through-wallet client ran through submission
\* and event lookup and failed for a missing event, with the client as built
C14_Witness ==
    /\ passThroughWallet.base.transactionType = "Transaction"
    /\ passThroughWallet.eventTopics = PassThroughWalletEventTopics
    /\ \E s \in Slots :
        LET i == inv[s]
        IN  /\ i.self = "client"
            /\ i.op \in PassThroughWalletOps
            /\ Issued(i, "getTransactionEvents")
            /\ i.out.error = "TransactionFailedError"

\* The invocation i replayed on its own: the same call on the same object,
\* fed the answers i received (owner, metadata, decimals, executor result,
\* receipt logs) one after the other with no other invocation in flight.
\* An awaited call was answered iff i went past it; an unanswered one either
\* is still awaited or failed in the transport.
RunAlone(i) ==
    LET this == ThisOf(i)
        Answered(j) ==
            \/ Len(i.net) > Len(j.net)
            \/ i.pc = "done" /\ i.out.error # "TransportError"
        Feed(j) ==
            IF j.pc = "done" THEN j
            ELSE IF ~Answered(j)
            THEN IF i.pc = "done" THEN Throw(j, "TransportError") ELSE j
            ELSE CASE j.pc = "awaitTrancheSizes" ->
                        createWaterfallModuleResolved(this, j, i.decimals)
                   [] j.pc = "awaitMetadata" ->
                        recoverNonWaterfallFundsValidated(this, j, i.meta)
                   [] j.pc = "awaitOwner" -> requireOwnerReturned(this, j, i.owner)
                   [] j.pc = "awaitExecutor" -> FacadeResult(j, i.res)
                   [] OTHER ->
                        LET k == [j EXCEPT !.logs = i.logs]
                            events == getTransactionEvents(i.logs, k.lookup.eventTopics)
                        IN  IF k.op \in WaterfallOps THEN WaterfallClientEvents(k, events)
                            ELSE PassThroughWalletClientEvents(k, events)
    IN  Feed(Feed(Feed(Start(this, Call(i.self, i.op, i.args)))))

\* C15: with two callers and every interleaving of their invocations' steps,
\* each invocation is at every moment where it would be when run alone with
\* the answers it received (same request, same result or error), and its event
\* lookup carries its own transaction hash and its own operation's topics.
C15_ConcurrentInvocationsIndependent ==
    \A s \in Slots :
        LET i == inv[s]
        IN  i.pc # "idle" =>
                /\ i = RunAlone(i)
                /\ Issued(i, "getTransactionEvents") =>
                      /\ i.lookup.txHash = i.res.value
                      /\ i.lookup.eventTopics = EventTopicsOf(i.op)

\* two write actions in flight at once, both waiting for their events, with
\* different transaction hashes and different topics
C15_Witness ==
    /\ inv[1].pc = "awaitEvents"
    /\ inv[2].pc = "awaitEvents"
    /\ inv[1].op # inv[2].op
    /\ inv[1].lookup.txHash # inv[2].lookup.txHash
    /\ inv[1].lookup.eventTopics # inv[2].lookup.eventTopics

SignerAlwaysOps == {"recoverNonWaterfallFunds", "withdrawPullFunds"}

\* the inputs pass the validation every builder starts with
ValidInputs(i) ==
    /\ Malformed \notin AddressInputs(i)
    /\ i.op = "createWaterfallModule" => validateWaterfallTranches(i.args.tranches)

\* C16: with valid inputs and no wallet client, recoverNonWaterfallFunds and
\* withdrawPullFunds end in MissingSignerError on every facade and under either
\* signer policy, with no call issued and no request built; every other
\* builder ends in MissingSignerError exactly when its object's signer policy
\* (_shouldRequireWalletClient) is on.
C16_RecoverAndWithdrawAlwaysNeedSigner ==
    \A s \in Slots :
        LET i == inv[s]
        IN  (/\ i.pc # "idle"
             /\ ValidInputs(i)
             /\ ThisOf(i).walletClient = NoAddr) =>
                IF i.op \in SignerAlwaysOps
                THEN /\ i.out.error = "MissingSignerError"
                     /\ i.net = <<>>
                     /\ ~ExecutorInvoked(i)
                ELSE (i.out.error = "MissingSignerError")
                        <=> ThisOf(i).shouldRequireWalletClient

\* a gas estimate of recoverNonWaterfallFunds under the relaxed policy, with
\* a data client but no wallet client, failed for the missing signer
C16_Witness ==
    \E s \in Slots :
        LET i == inv[s]
        IN  /\ i.op = "recoverNonWaterfallFunds"
            /\ i.self = "estimateGas"
            /\ ~ThisOf(i).shouldRequireWalletClient
            /\ ThisOf(i).walletClient = NoAddr
            /\ ThisOf(i).dataClient
            /\ ValidInputs(i)
            /\ i.out.error = "MissingSignerError"
            /\ i.net = <<>>

\* the metadata names a non-waterfall recipient: set and not the zero address
HasNonWaterfallRecipient(meta) ==
    meta.nonWaterfallRecipient \notin {UndefinedAddr, zeroAddress}

IsTrancheRecipient(meta, recipient) ==
    \E k \in 1..Len(meta.tranches) : SameAddress(meta.tranches[k], recipient)

\* C17: once the metadata arrived and the token is not the primary token,
\* recovery is rejected with InvalidArgumentError unless the recipient is
\* acceptable, and is handed to the executor when it is; with a non-waterfall
\* recipient the acceptable recipient is that address alone (ignoring letter
\* case), without one it is any tranche recipient.
C17_RecipientRule ==
    \A s \in Slots :
        LET i == inv[s]
            acceptable ==
                IF HasNonWaterfallRecipient(i.meta)
                THEN SameAddress(RecoverRecipient(i), i.meta.nonWaterfallRecipient)
                ELSE IsTrancheRecipient(i.meta, RecoverRecipient(i))
        IN  (/\ i.op = "recoverNonWaterfallFunds"
             /\ i.meta # NoMeta
             /\ ~SameAddress(i.args.token, i.meta.token)) =>
                IF acceptable
                THEN i.out.error # "InvalidArgumentError" /\ ExecutorInvoked(i)
                ELSE i.out.error = "InvalidArgumentError" /\ ~ExecutorInvoked(i)

\* a tranche recipient was rejected because the module has a different
\* non-waterfall recipient
C17_Witness ==
    \E s \in Slots :
        LET i == inv[s]
        IN  /\ i.op = "recoverNonWaterfallFunds"
            /\ i.meta # NoMeta
            /\ ~SameAddress(i.args.token, i.meta.token)
            /\ HasNonWaterfallRecipient(i.meta)
            /\ IsTrancheRecipient(i.meta, RecoverRecipient(i))
            /\ ~SameAddress(RecoverRecipient(i), i.meta.nonWaterfallRecipient)
            /\ i.out.error = "InvalidArgumentError"

\* C18: on every facade, recoverNonWaterfallFunds without a data client ends
\* in an error with no call issued and no request built; and whenever it hands
\* a request to the executor, a data client is configured, the metadata lookup
\* was its first call and was answered, and the token and the recipient passed
\* the checks against that metadata.
C18_RecoverNeedsMetadataFirst ==
    \A s \in Slots :
        LET i == inv[s]
        IN  i.op = "recoverNonWaterfallFunds" =>
                /\ ~ThisOf(i).dataClient =>
                      /\ i.pc = "done"
                      /\ i.out.status = "error"
                      /\ i.net = <<>>
                      /\ ~ExecutorInvoked(i)
                /\ ExecutorInvoked(i) =>
                      /\ ThisOf(i).dataClient
                      /\ Len(i.net) >= 1
                      /\ i.net[1] = "getWaterfallMetadata"
                      /\ i.meta # NoMeta
                      /\ ~SameAddress(i.args.token, i.meta.token)
                      /\ IF HasNonWaterfallRecipient(i.meta)
                         THEN SameAddress(RecoverRecipient(i), i.meta.nonWaterfallRecipient)
                         ELSE IsTrancheRecipient(i.meta, RecoverRecipient(i))
                /\ ExecutorCalled(i) => i.net[1] = "getWaterfallMetadata"

\* call data for a recovery with valid inputs and a signer, but no data
\* client: it failed before any call
C18_Witness ==
    \E s \in Slots :
        LET i == inv[s]
        IN  /\ i.op = "recoverNonWaterfallFunds"
            /\ i.self = "callData"
            /\ ValidInputs(i)
            /\ ThisOf(i).walletClient # NoAddr
            /\ ~ThisOf(i).dataClient
            /\ i.out.status = "error"
            /\ i.out.error \notin {"InvalidArgumentError", "MissingSignerError"}
            /\ i.net = <<>>

====
